---- MODULE Spec2Model ----
(***************************************************************************)
(* jirgram: JirgramClient (src/main.py) as a state machine.                *)
(*                                                                         *)
(* JirgramClient is the Dispatcher: it registers three update handlers     *)
(* (and the ghost-mode status handler) with the transport and forwards     *)
(* each update to the anti-delete handler, the history handler or the      *)
(* ghost-mode handler.  Those handlers and the database live in the        *)
(* repository's modules/ package, which is not part of src/; they are      *)
(* modelled from the design document (sections 4.1 - 4.5) and are marked   *)
(* as such where they are defined.                                         *)
(*                                                                         *)
(* The transport delivers updates one at a time in arrival order and calls *)
(* the handler registered for the update's type.  The three handlers of    *)
(* JirgramClient are coroutines that await a module call; src/main.py has  *)
(* no lock and no per-identity lane, so a handler is suspended at its      *)
(* await while others run: the handlers in flight (`inflight`) resume in   *)
(* any order.  The module call itself takes effect in one step (design 5:  *)
(* Store access is safe for concurrent use, Capture Buffer mutations are   *)
(* internally synchronized).                                               *)
(*                                                                         *)
(* init_client, run and stop are modelled as the methods are, without      *)
(* guards but the bound on the calls of run in progress: Spec is the       *)
(* program as main() calls them (main_pc is main's position), SpecGhost a  *)
(* client whose methods any caller calls in any order.  A Telegram object  *)
(* is only reached through self.tg: an object init_client has replaced is  *)
(* never stopped and goes on delivering.                                   *)
(***************************************************************************)
EXTENDS Integers, Sequences, FiniteSets, TLC

(* ------------------------------ bounds -------------------------------- *)

\* updates the transport delivers in one run
MaxEvents == 3
\* handlers that can be in flight at once
MaxInFlight == 2
\* calls of run that can be in progress at once
MaxRuns == 2

\* message identities (chat_id, message_id) and message contents
Ids == {<<1, 1>>, <<1, 2>>}
Chats == {i[1] : i \in Ids}
MsgIds(chat) == {i[2] : i \in {j \in Ids : j[1] = chat}}
Contents == {"a", "b"}
\* the set of the elements of a sequence
Range(s) == {s[i] : i \in 1..Len(s)}
\* the message_ids lists a delete update of the chat can carry: one
\* message, or the chat's first message and then a message, which can be
\* the first one again (the batch names it twice)
Batches(chat) ==
    {<<m>> : m \in MsgIds(chat)} \cup
    {<<m, n>> : m \in {k \in MsgIds(chat) : \A j \in MsgIds(chat) : k <= j},
                n \in MsgIds(chat)}
\* a messageText content whose text field is no dict with a string in it
Malformed == "malformed"
\* the contents a new-message update of the identity can carry; one
\* identity is enough to have the malformed message
MessageContents(id) ==
    Contents \cup (IF \A j \in Ids : id[2] <= j[2] THEN {Malformed} ELSE {})
\* the contents the transport returns when asked for a message (backfill)
Backfill == {"a"}

(* --------------------------- values ----------------------------------- *)

NotFound == "NotFound"
Unavailable == "unavailable"
FetchFail == "TransportError"
NoContent == "-"
\* no handler registered: self.tg before init_client
NoHandlers == {}

T_NEW == "updateNewMessage"
T_DELETE == "updateDeleteMessages"
T_EDIT == "updateMessageEdited"
T_STATUS == "updateUserStatus"

VARIABLES
    \* JirgramClient attributes (src/main.py 59-73)
    ghost_mode_enabled, hide_online, hide_typing, hide_read, save_deleted,
    tg, is_running,
    \* the calls of run in progress: how many are in self.tg.login() on the
    \* Telegram object bound to self.tg (login), how many in tg.idle() (idle)
    run_pc,
    \* the calls of run in tg.login() on a Telegram object init_client has
    \* replaced since: how many, for each set of handlers such an object has
    run_tg,
    \* main: "init_client", "run" (the call it makes next), "in_run",
    \* "stopped", "returned", "exit1"; "none" when another caller drives the
    \* client
    main_pc,
    \* the Telegram object bound to self.tg: the handlers registered with
    \* it, and whether it has logged in and delivers updates
    handlers, listening,
    \* the Telegram objects init_client has replaced that deliver updates
    \* (nothing stops them), each given by the handlers registered with it
    replaced,
    \* the handler coroutines in flight, the updates delivered so far
    inflight, arrived,
    \* MessageDatabase (Store) and the Capture Buffer
    db_open, messages, buffer, revisions, deletions,
    \* outcome of the most recent handler run and of the most recent send
    last, sent,
    \* history of what has been handled, per identity
    newContents, edits

flags == <<ghost_mode_enabled, hide_online, hide_typing, hide_read, save_deleted>>
client == <<tg, is_running, run_pc, run_tg, main_pc>>
transport == <<handlers, listening, replaced, inflight, arrived>>
store == <<db_open, messages, buffer, revisions, deletions>>
history == <<newContents, edits>>
vars == <<flags, client, transport, store, last, sent, history>>

(* --------------------- Store and Capture Buffer ----------------------- *)

\* maximum number of Capture Buffer entries
BufferCap == 1

\* Capture Buffer lookup(chat_id, message_id)
Lookup(buf, id) ==
    IF \E i \in 1..Len(buf) : buf[i].id = id
    THEN (CHOOSE e \in {buf[i] : i \in 1..Len(buf)} : e.id = id).content
    ELSE NotFound

\* Store get_message(chat_id, message_id)
GetMessage(msgs, id) == msgs[id]

\* content lookup used by tombstoning and by revision 0:
\* Capture Buffer first, falling back to Store
Snapshot(buf, msgs, id) ==
    IF Lookup(buf, id) # NotFound THEN Lookup(buf, id) ELSE GetMessage(msgs, id)

\* the buffer without the entry of id
Without(buf, id) == SelectSeq(buf, LAMBDA e : e.id # id)

\* the buffer after observe(record): insert or refresh, newest last
Inserted(buf, id, c) == Append(Without(buf, id), [id |-> id, content |-> c])

\* observe(record): the entries that remain after evicting the
\* least recently inserted ones
ObserveBuffer(buf, id, c) ==
    LET b == Inserted(buf, id, c)
    IN  IF Len(b) > BufferCap THEN SubSeq(b, Len(b) - BufferCap + 1, Len(b)) ELSE b

\* observe(record): the entries evicted by it
Evicted(buf, id, c) ==
    LET b == Inserted(buf, id, c)
    IN  IF Len(b) > BufferCap
        THEN {b[i] : i \in 1..(Len(b) - BufferCap)}
        ELSE {}

\* Store after the eviction flush: an evicted entry that is not persisted
\* is written when the Store is available
Flushed(msgs, ev, ok) ==
    [i \in Ids |->
        IF ok /\ msgs[i] = NotFound /\ \E e \in ev : e.id = i
        THEN (CHOOSE e \in ev : e.id = i).content
        ELSE msgs[i]]

(* ------------------------ Anti-Delete Engine -------------------------- *)

\* put_message rejecting every write to an identity that has a record
Immutable_AnyRewrite(msgs, id, c) == msgs[id] # NotFound

\* Store put_message as used by save_message: TRUE when the identity holds
\* a different content already (ImmutableRecord: logged, write rejected)
Immutable(msgs, id, c) == msgs[id] # NotFound /\ msgs[id] # c

\* AntiDeleteHandler.save_message(message): write to Capture Buffer and
\* Store.  ok = the Store is available during this event; when it is not,
\* the entry stays in the buffer pending its write and StorageUnavailable
\* surfaces to the caller.
SaveMessage(msgs, buf, id, c, ok) ==
    IF ok /\ Immutable(msgs, id, c)
    THEN [messages |-> msgs, buffer |-> buf, raised |-> FALSE]
    ELSE LET flushed == Flushed(msgs, Evicted(buf, id, c), ok)
         IN  [messages |-> IF ok THEN [flushed EXCEPT ![id] = c] ELSE flushed,
              buffer   |-> ObserveBuffer(buf, id, c),
              raised   |-> ~ok]

\* Store get_deletion(chat_id, message_id) # NotFound
HasDeletion(dels, id) == \E i \in 1..Len(dels) : dels[i].id = id

\* last_known_content of a new Deletion Record: Capture Buffer, falling
\* back to Store, falling back to "unavailable"
LastKnownContent(buf, msgs, id) ==
    IF Snapshot(buf, msgs, id) # NotFound THEN Snapshot(buf, msgs, id) ELSE Unavailable

\* handle_deletion writing a Deletion Record for every delete event
Tombstones_EveryEvent(dels, chat, m, failing) == m \notin failing

\* whether the identity <<chat, m>> gets a Deletion Record in this batch:
\* at most one per identity, and none when its Store write fails
Tombstones(dels, chat, m, failing) ==
    ~HasDeletion(dels, <<chat, m>>) /\ m \notin failing

\* AntiDeleteHandler.handle_deletion(update): the message ids of the batch
\* are processed one by one, in the order of the list, each independently;
\* failing = the message ids whose Store write fails
RECURSIVE HandleDeletion(_, _, _, _, _, _)
HandleDeletion(dels, buf, msgs, chat, ids, failing) ==
    IF ids = <<>> THEN dels
    ELSE LET m == Head(ids)
             d == IF Tombstones(dels, chat, m, failing)
                  THEN Append(dels, [id      |-> <<chat, m>>,
                                     content |-> LastKnownContent(buf, msgs, <<chat, m>>)])
                  ELSE dels
         IN  HandleDeletion(d, buf, msgs, chat, Tail(ids), failing)

\* handle_deletion removing the Message Record it has tombstoned
MessagesAfterDeletion_Removed(msgs, chat, ids, failing) ==
    [i \in Ids |-> IF i[1] = chat /\ i[2] \in Range(ids) \ failing THEN NotFound ELSE msgs[i]]

\* the Store's Message Records after handle_deletion: the original records
\* are left untouched
MessagesAfterDeletion(msgs, chat, ids, failing) == msgs

\* the per-item result of handle_deletion: the message ids of the batch
\* whose Deletion Record was to be written and whose write failed
ReportedFailures(dels, chat, ids, failing) ==
    {m \in Range(ids) : m \in failing /\ ~HasDeletion(dels, <<chat, m>>)}

\* AntiDeleteHandler.get_deleted_messages(chat_id): the chat's Deletion
\* Records ordered by deleted_at ascending
DeletedMessages(dels, chat) == SelectSeq(dels, LAMBDA d : d.id[1] = chat)

(* ----------------------- Edit-History Tracker ------------------------- *)

\* content of revision 0 when the identity has no revision yet: the
\* snapshot prior to the edit, else the transport backfill, else unavailable
RevisionZero(buf, msgs, id, fetch) ==
    IF Snapshot(buf, msgs, id) # NotFound THEN Snapshot(buf, msgs, id)
    ELSE IF fetch # FetchFail THEN fetch
    ELSE Unavailable

Revision(n, c) == [seq |-> n, content |-> c]

\* the largest revision_seq of a non-empty revision list
RECURSIVE MaxSeq(_)
MaxSeq(revs) ==
    IF Len(revs) = 1 THEN revs[1].seq
    ELSE IF revs[1].seq > MaxSeq(Tail(revs)) THEN revs[1].seq ELSE MaxSeq(Tail(revs))

\* revisions of the identity after the edit: revision 0 is synthesized
\* when there is none yet, the new one gets revision_seq = max existing + 1
AppendRevision(revs, rev0, c) ==
    LET base == IF revs = <<>> THEN <<Revision(0, rev0)>> ELSE revs
    IN  Append(base, Revision(MaxSeq(base) + 1, c))

\* MessageHistoryHandler.handle_edit(update, tg)
HandleEdit(revs, buf, msgs, id, c, fetch, ok) ==
    IF ~ok
    THEN [revisions |-> revs, messages |-> msgs, raised |-> TRUE]
    ELSE [revisions |-> [revs EXCEPT ![id] =
                            AppendRevision(revs[id], RevisionZero(buf, msgs, id, fetch), c)],
          messages  |-> IF msgs[id] # NotFound THEN [msgs EXCEPT ![id] = c] ELSE msgs,
          raised    |-> FALSE]

\* MessageHistoryHandler.get_edit_history(chat_id, message_id): NotFound
\* when the identity has no revisions
EditHistory(revs, id) == IF revs[id] = <<>> THEN NotFound ELSE revs[id]

(* -------------------------- Ghost-Mode Filter ------------------------- *)

\* GhostModeHandler.handle_status_update: with hide-online the presence
\* update is dropped at the dispatch boundary
StatusOutcome(hideOnline) == IF hideOnline THEN "suppressed" ELSE "delivered"

(* ---------------------------- JirgramClient --------------------------- *)

\* _register_handlers registering the status handler unconditionally
RegisteredHandlers_All(ghost) == {T_NEW, T_DELETE, T_EDIT, T_STATUS}

\* _register_handlers: the update types a handler is registered for
RegisteredHandlers(ghost) ==
    {T_NEW, T_DELETE, T_EDIT} \cup (IF ghost THEN {T_STATUS} ELSE {})

\* the sets of handlers init_client can have registered with self.tg when
\* a KeyboardInterrupt ends it: self.tg is bound (lines 79-85) and
\* _register_handlers has made its first k registrations (lines 94-99)
PartlyRegistered(ghost) ==
    LET order == <<T_NEW, T_DELETE, T_EDIT, T_STATUS>>
    IN  {{order[i] : i \in 1..k} \cap RegisteredHandlers(ghost) :
            k \in 0..Len(order)}

\* the sets of handlers a Telegram object can have
Registrations == {RegisteredHandlers(ghost) : ghost \in BOOLEAN}

\* handle_new_message saving whatever save_deleted is
CapturesMessage_Ungated(utype, saveDeleted) == utype = T_NEW

\* handle_new_message: whether the message is passed to save_message
CapturesMessage(utype, saveDeleted) == utype = T_NEW /\ saveDeleted

\* handle_delete_message: whether the update is passed to handle_deletion
HandlesDeletion(saveDeleted) == saveDeleted

\* handle_delete_message awaits handle_deletion without binding its result
\* (line 118) and returns None: of the failures handle_deletion reports,
\* the Dispatcher reports none
DispatcherReports(report) == {}

\* handle_edit_message gated by save_deleted like the other two handlers
HandlesEdit_Gated(saveDeleted) == saveDeleted

\* handle_edit_message: whether the update is passed to handle_edit
HandlesEdit(saveDeleted) == TRUE

\* send_message passing the caller's flag alone
DisableNotification_CallerOnly(silent, ghost) == silent

\* send_message: the disable_notification field of the outbound call
DisableNotification(silent, ghost) == silent \/ ghost

\* send_message reading the flag as it was when the handlers were registered
GhostForSend_AtRegistration == T_STATUS \in handlers

\* send_message: the ghost-mode flag it reads, the attribute's current value
GhostForSend == ghost_mode_enabled

\* _extract_text and the debug log line (text[:50]) raising on a message
\* whose text is no dict with a string in it
ExtractTextRaises(c) == c = Malformed

Event(type, chat, ids, content, seq) ==
    [type |-> type, chat |-> chat, ids |-> ids, content |-> content, seq |-> seq]

\* what the most recent handler run did: the handler's update type, how
\* many message ids the update named, what the module call did, the
\* failures the handler reported, and the run's inputs from outside (the
\* message ids whose Store write fails, the backfill result)
Outcome(type, named, outcome, reported, failing, fetch) ==
    [type |-> type, named |-> named, outcome |-> outcome, reported |-> reported,
     failing |-> failing, fetch |-> fetch]

NoEvent == Outcome("none", 0, "none", {}, {}, FetchFail)

\* no call of run in progress
NoRun == [login |-> 0, idle |-> 0]

\* the number of calls of run in progress
RunsInProgress ==
    run_pc.login + run_pc.idle +
    Cardinality({<<h, k>> \in Registrations \X (1..MaxRuns) : k <= run_tg[h]})
NoSend == [chat |-> 0, text |-> NoContent, silent |-> FALSE,
           ghost |-> FALSE, disable_notification |-> FALSE]

\* the process runs: main, when it drives the client, has neither returned
\* nor exited
Alive == main_pc \notin {"stopped", "returned", "exit1"}

\* main has returned through its KeyboardInterrupt branch, after stop()
stopped == main_pc = "stopped"

\* main has logged "Fatal error" and exited with status 1 (lines 238-240)
fatal == main_pc = "exit1"

\* __init__: the state after construction, for the given config values;
\* pc = "init_client" when main has constructed the client, "none" when
\* another caller has
Constructed(ghost, online, typing, read, saveDeleted, pc) ==
    /\ ghost_mode_enabled = ghost
    /\ hide_online = online
    /\ hide_typing = typing
    /\ hide_read = read
    /\ save_deleted = saveDeleted
    /\ tg = "None"
    /\ is_running = FALSE
    /\ run_pc = NoRun
    /\ run_tg = [h \in Registrations |-> 0]
    /\ main_pc = pc
    /\ handlers = NoHandlers
    /\ listening = FALSE
    /\ replaced = {}
    /\ inflight = {}
    /\ arrived = 0
    /\ db_open = TRUE
    /\ messages = [i \in Ids |-> NotFound]
    /\ buffer = <<>>
    /\ revisions = [i \in Ids |-> <<>>]
    /\ deletions = <<>>
    /\ last = NoEvent
    /\ sent = NoSend
    /\ newContents = [i \in Ids |-> {}]
    /\ edits = [i \in Ids |-> <<>>]

\* main has constructed the client: the ghost-mode flags at their config
\* defaults, SAVE_DELETED_MESSAGES as configured
Init ==
    \E sd \in BOOLEAN :
        Constructed(TRUE, TRUE, TRUE, TRUE, sd, "init_client")

\* init_client: a new Telegram object is bound to self.tg and gets the
\* handlers registered according to the current flag.  The new object has
\* not logged in.  No call is made on the previous object: it keeps its
\* handlers, goes on delivering when it did, the logins in progress on it
\* go on, and the handlers in flight are not touched.
init_client ==
    /\ tg' = "Telegram"
    /\ handlers' = RegisteredHandlers(ghost_mode_enabled)
    /\ listening' = FALSE
    /\ replaced' = IF listening THEN replaced \cup {handlers} ELSE replaced
    /\ run_tg' = IF run_pc.login > 0
                 THEN [run_tg EXCEPT ![handlers] = @ + run_pc.login]
                 ELSE run_tg
    /\ run_pc' = [run_pc EXCEPT !.login = 0]
    /\ UNCHANGED <<flags, is_running, inflight, arrived,
                   store, last, sent, history>>

\* run, up to its call of self.tg.login(): is_running is set first (line
\* 169); without a transport self.tg.login() raises AttributeError and the
\* call ends, else the call is in tg.login().  run can be called while
\* other calls of it are in progress, up to MaxRuns at once.
run ==
    /\ RunsInProgress < MaxRuns
    /\ is_running' = TRUE
    /\ run_pc' = IF tg = "None" THEN run_pc
                 ELSE [run_pc EXCEPT !.login = @ + 1]
    /\ UNCHANGED <<flags, tg, run_tg, transport, store, last, sent, history>>

\* stop: is_running is cleared and the transport bound to self.tg, when
\* there is one, is stopped; the calls of run in progress are not ended by it
stop ==
    /\ is_running' = FALSE
    /\ listening' = IF tg # "None" THEN FALSE ELSE listening
    /\ UNCHANGED <<flags, tg, run_tg, handlers, replaced, inflight, arrived,
                   store, last, sent, history>>

\* main's except Exception (lines 238-240): an exception that leaves run
\* or a handler ends main with exit status 1
MainExcept(raises) ==
    main_pc' = IF raises /\ main_pc # "none" THEN "exit1" ELSE main_pc

\* an exception that leaves a handler ends a call of run that is idling
\* and, through it, main
HandlerEnds(raises) ==
    /\ run_pc' = IF raises /\ run_pc.idle > 0
                 THEN [run_pc EXCEPT !.idle = @ - 1] ELSE run_pc
    /\ MainExcept(raises)

\* init_client called by any caller
InitClient == Alive /\ init_client /\ UNCHANGED main_pc

\* run called by any caller
Run == Alive /\ run /\ UNCHANGED main_pc

\* stop called by any caller
Stop == Alive /\ stop /\ UNCHANGED <<run_pc, main_pc>>

\* run, lines 170-171, for one of the calls in progress: tg.login() returns
\* and run goes on to tg.idle(), the transport that has logged in delivering
\* updates from now on, or tg.login() raises and the exception leaves run.
\* cur = the login is on the object bound to self.tg; else it is on a
\* replaced object, with handlers h.
Login ==
    /\ Alive
    /\ \E cur \in BOOLEAN, h \in Registrations, ok \in BOOLEAN :
          /\ IF cur THEN run_pc.login > 0 /\ h = handlers ELSE run_tg[h] > 0
          /\ listening' = IF ok /\ cur THEN TRUE ELSE listening
          /\ replaced' = IF ok /\ ~cur THEN replaced \cup {h} ELSE replaced
          /\ run_pc' = [login |-> run_pc.login - (IF cur THEN 1 ELSE 0),
                        idle  |-> run_pc.idle + (IF ok THEN 1 ELSE 0)]
          /\ run_tg' = IF cur THEN run_tg ELSE [run_tg EXCEPT ![h] = @ - 1]
          /\ MainExcept(~ok)
    /\ UNCHANGED <<flags, tg, is_running, handlers, inflight, arrived,
                   store, last, sent, history>>

\* run, line 171, for one of the calls in progress: tg.idle() returns and
\* with it run; main, when it made the call, returns too
IdleReturns ==
    /\ Alive
    /\ run_pc.idle > 0
    /\ run_pc' = [run_pc EXCEPT !.idle = @ - 1]
    /\ main_pc' = IF main_pc = "none" THEN "none" ELSE "returned"
    /\ UNCHANGED <<flags, tg, is_running, run_tg, transport,
                   store, last, sent, history>>

\* the Telegram objects that deliver updates, each given by its handlers
Delivers == replaced \cup (IF listening THEN {handlers} ELSE {})

\* a transport that has logged in receives an update from the remote
\* service and calls the handler registered with it for the update's type:
\* the call makes the handler's coroutine, which is in flight until it has
\* run to its end (suspended at its await of the module call, or not yet
\* resumed)
Arrive(e) ==
    /\ Alive
    /\ arrived < MaxEvents
    /\ Cardinality(inflight) < MaxInFlight
    /\ \E h \in Delivers : e.type \in h
    /\ inflight' = inflight \cup {e}
    /\ arrived' = arrived + 1
    /\ UNCHANGED <<flags, client, handlers, listening, replaced,
                   store, last, sent, history>>

ArriveNew ==
    \E id \in Ids : \E c \in MessageContents(id) :
        Arrive(Event(T_NEW, id[1], <<id[2]>>, c, arrived + 1))

ArriveDelete ==
    \E chat \in Chats : \E ids \in Batches(chat) :
        Arrive(Event(T_DELETE, chat, ids, NoContent, arrived + 1))

ArriveEdit ==
    \E id \in Ids, c \in Contents :
        Arrive(Event(T_EDIT, id[1], <<id[2]>>, c, arrived + 1))

ArriveStatus ==
    Arrive(Event(T_STATUS, 0, <<>>, NoContent, arrived + 1))

\* the handler in flight for update e resumes: its module call completes
\* and the handler runs to its end.  Handlers in flight resume in any order.
Delivering(e, type) ==
    /\ Alive
    /\ e \in inflight
    /\ e.type = type

\* the handler run of update e is complete
Delivered(e) == inflight' = inflight \ {e}

\* the only identity of a new-message or edit update
IdOf(e) == <<e.chat, e.ids[1]>>

\* handle_new_message from its await of save_message (line 108) to its end.
\* An exception of save_message, or of the log lines 110-113 that run for
\* every new message, is not caught and leaves the handler.  The outcome
\* tells what put_message did: "ok" a new record, "unchanged" the no-op of
\* an identical record, "rejected" ImmutableRecord, "skipped" save_message
\* not called.
DispatchNew ==
    \E e \in inflight :
    /\ Delivering(e, T_NEW)
    /\ LET id == IdOf(e)
       IN \E ok \in BOOLEAN :
          /\ (~CapturesMessage(e.type, save_deleted) => ok)
          /\ LET r == IF CapturesMessage(e.type, save_deleted)
                      THEN SaveMessage(messages, buffer, id, e.content, ok)
                      ELSE [messages |-> messages, buffer |-> buffer, raised |-> FALSE]
                 error == r.raised \/ ExtractTextRaises(e.content)
             IN /\ messages' = r.messages
                /\ buffer' = r.buffer
                /\ HandlerEnds(error)
                /\ last' = Outcome(T_NEW, Len(e.ids),
                                   IF r.raised THEN "raised"
                                   ELSE IF ~CapturesMessage(e.type, save_deleted)
                                   THEN "skipped"
                                   ELSE IF Immutable(messages, id, e.content)
                                   THEN "rejected"
                                   ELSE IF messages[id] = e.content
                                   THEN "unchanged" ELSE "ok",
                                   {}, {}, FetchFail)
                /\ newContents' = [newContents EXCEPT ![id] = @ \cup {e.content}]
          /\ Delivered(e)
    /\ UNCHANGED <<flags, tg, is_running, run_tg, handlers, arrived, listening, replaced,
                   db_open, revisions, deletions, sent, edits>>

\* handle_delete_message from its await of handle_deletion (line 118) to
\* its end.  ok = handle_deletion returns; when it raises instead, before
\* the batch is processed, the exception is not caught and leaves the
\* handler.  failing = the message ids whose Store write fails while the
\* batch is processed; those failures are collected by handle_deletion,
\* not raised, and its result is dropped by the handler.
DispatchDelete ==
    \E e \in inflight :
    /\ Delivering(e, T_DELETE)
    /\ \E ok \in BOOLEAN : \E failing \in SUBSET Range(e.ids) :
          \* the module call can fail only where it is made
          /\ (~HandlesDeletion(save_deleted) => (ok /\ failing = {}))
          /\ (~ok => failing = {})
          /\ deletions' = IF HandlesDeletion(save_deleted) /\ ok
                          THEN HandleDeletion(deletions, buffer, messages, e.chat,
                                              e.ids, failing)
                          ELSE deletions
          /\ HandlerEnds(~ok)
          /\ last' = Outcome(T_DELETE, Len(e.ids),
                             IF ~ok THEN "raised"
                             ELSE IF HandlesDeletion(save_deleted)
                             THEN "ok" ELSE "skipped",
                             IF HandlesDeletion(save_deleted) /\ ok
                             THEN DispatcherReports(
                                      ReportedFailures(deletions, e.chat, e.ids, failing))
                             ELSE {},
                             failing, FetchFail)
          /\ messages' = IF HandlesDeletion(save_deleted) /\ ok
                         THEN MessagesAfterDeletion(messages, e.chat, e.ids, failing)
                         ELSE messages
          /\ Delivered(e)
    /\ UNCHANGED <<flags, tg, is_running, run_tg, handlers, arrived, listening, replaced,
                   db_open, buffer, revisions, sent, newContents, edits>>

\* handle_edit_message from its await of handle_edit (line 122) to its end;
\* an exception of handle_edit is not caught and leaves the handler
DispatchEdit ==
    \E e \in inflight :
    /\ Delivering(e, T_EDIT)
    /\ LET id == IdOf(e)
       IN \E ok \in BOOLEAN, fetch \in Backfill \cup {FetchFail} :
          /\ (~HandlesEdit(save_deleted) => ok)
          \* the backfill is requested only for revision 0 without a snapshot
          /\ (fetch # FetchFail =>
                 /\ HandlesEdit(save_deleted) /\ ok
                 /\ revisions[id] = <<>> /\ Snapshot(buffer, messages, id) = NotFound)
          /\ LET r == IF HandlesEdit(save_deleted)
                      THEN HandleEdit(revisions, buffer, messages, id, e.content, fetch, ok)
                      ELSE [revisions |-> revisions, messages |-> messages, raised |-> FALSE]
             IN /\ revisions' = r.revisions
                /\ messages' = r.messages
                /\ HandlerEnds(r.raised)
                /\ last' = Outcome(T_EDIT, Len(e.ids),
                                   IF r.raised THEN "raised"
                                   ELSE IF HandlesEdit(save_deleted)
                                   THEN "ok" ELSE "skipped",
                                   {}, {}, fetch)
                /\ edits' = IF r.raised THEN edits
                            ELSE [edits EXCEPT ![id] =
                                     Append(@, [seq |-> e.seq, content |-> e.content])]
          /\ Delivered(e)
    /\ UNCHANGED <<flags, tg, is_running, run_tg, handlers, arrived, listening, replaced,
                   db_open, buffer, deletions, sent, newContents>>

\* ghost_handler.handle_status_update, where it was registered; an
\* exception of it is not caught and leaves the handler
DispatchStatus ==
    \E e \in inflight :
    /\ Delivering(e, T_STATUS)
    /\ \E ok \in BOOLEAN :
          /\ last' = Outcome(T_STATUS, Len(e.ids),
                             IF ok THEN StatusOutcome(hide_online) ELSE "raised",
                             {}, {}, FetchFail)
          /\ HandlerEnds(~ok)
    /\ Delivered(e)
    /\ UNCHANGED <<flags, tg, is_running, run_tg, handlers, arrived, listening, replaced,
                   store, sent, newContents, edits>>

\* a transport that has logged in receives an update no handler is
\* registered with it for: the update is dropped.  Only the status update
\* can be without a handler.
DropUnrouted ==
    /\ Alive
    /\ arrived < MaxEvents
    /\ \E h \in Delivers :
          \E type \in {T_NEW, T_DELETE, T_EDIT, T_STATUS} \ h :
              last' = Outcome(type, 0, "unrouted", {}, {}, FetchFail)
    /\ arrived' = arrived + 1
    /\ UNCHANGED <<flags, client, handlers, listening, replaced, inflight,
                   store, sent, history>>

\* send_message(chat_id, text, silent)
SendMessage ==
    /\ Alive
    /\ tg # "None"
    /\ \E chat \in Chats, text \in Backfill, silent \in BOOLEAN :
          sent' = [chat |-> chat, text |-> text, silent |-> silent,
                   ghost |-> ghost_mode_enabled,
                   disable_notification |-> DisableNotification(silent, GhostForSend)]
    /\ UNCHANGED <<flags, client, transport, store, last, history>>

\* the ghost_mode_enabled attribute is set after construction
SetGhostMode ==
    /\ Alive
    /\ \E b \in BOOLEAN :
          /\ b # ghost_mode_enabled
          /\ ghost_mode_enabled' = b
    /\ UNCHANGED <<hide_online, hide_typing, hide_read, save_deleted, client,
                   transport, store, last, sent, history>>

\* main, line 232: init_client is called on the client just constructed
MainInitClient ==
    /\ main_pc = "init_client"
    /\ init_client
    /\ main_pc' = "run"

\* main, line 233: run is called after init_client
MainRun ==
    /\ main_pc = "run"
    /\ run
    /\ main_pc' = IF tg = "None" THEN "exit1" ELSE "in_run"

\* main, lines 234-237: a KeyboardInterrupt ends what main is doing, its
\* call of run when it is in one; stop is called and main returns
MainStop ==
    /\ main_pc \in {"init_client", "run", "in_run"}
    /\ stop
    /\ run_pc' = NoRun
    /\ main_pc' = "stopped"

\* main, lines 234-237, the KeyboardInterrupt coming while init_client
\* runs: self.tg is bound and some of the handlers are registered; stop is
\* called, which stops that transport, and main returns
MainStopInInitClient ==
    /\ main_pc = "init_client"
    /\ tg' = "Telegram"
    /\ handlers' \in PartlyRegistered(ghost_mode_enabled)
    /\ is_running' = FALSE
    /\ listening' = FALSE
    /\ main_pc' = "stopped"
    /\ UNCHANGED <<flags, run_pc, run_tg, replaced, inflight, arrived,
                   store, last, sent, history>>

\* the program as main runs it, and the updates the transport delivers;
\* with ghost mode at its default every update type has a handler
Next ==
    \/ MainInitClient
    \/ MainRun
    \/ Login
    \/ IdleReturns
    \/ MainStop
    \/ MainStopInInitClient
    \/ ArriveNew
    \/ ArriveDelete
    \/ ArriveEdit
    \/ ArriveStatus
    \/ DispatchNew
    \/ DispatchDelete
    \/ DispatchEdit
    \/ DispatchStatus

Spec == Init /\ [][Next]_vars

\* ghost mode: every setting of the four ghost-mode flags, SAVE_DELETED at
\* its default; the client's methods are called by any caller, in any order
InitGhost ==
    \E g \in BOOLEAN, o \in BOOLEAN, t \in BOOLEAN, r \in BOOLEAN :
        Constructed(g, o, t, r, TRUE, "none")

NextGhost ==
    \/ InitClient
    \/ Run
    \/ Login
    \/ IdleReturns
    \/ Stop
    \/ SetGhostMode
    \/ SendMessage
    \/ ArriveStatus
    \/ DispatchStatus
    \/ DropUnrouted

SpecGhost == InitGhost /\ [][NextGhost]_vars

(* ====================================================================== *)
(*                               Properties                               *)
(* ====================================================================== *)

\* this step completes the handler run of update e
Completes(e) == e \in inflight /\ e \notin inflight'

\* update e names the identity
Names(e, id) == e.chat = id[1] /\ id[2] \in Range(e.ids)

\* this step completes the handler run of an update of the type that names
\* the identity
Handled(e, type, id) == Completes(e) /\ e.type = type /\ Names(e, id)

\* the chat's deleted messages hold a Deletion Record of the identity with
\* the content
Returned(dels, id, c) ==
    \E i \in 1..Len(DeletedMessages(dels, id[1])) :
        /\ DeletedMessages(dels, id[1])[i].id = id
        /\ DeletedMessages(dels, id[1])[i].content = c

\* a NewMessage with content c has been handled for the identity, and then
\* this step completes the handler run of a MessagesDeleted naming it
NewThenDeleted(id, c) ==
    /\ \E e \in inflight : Handled(e, T_DELETE, id)
    /\ newContents[id] = {c}

\* C1: for every identity, after a NewMessage for it has been handled and
\* then a MessagesDeleted naming it has been handled,
\* get_deleted_messages(chat_id) returns a Deletion Record of the identity
\* whose last_known_content is the content of the NewMessage.
C1_DeletedContentIsNewMessageContent ==
    [][\A id \in Ids, c \in Contents :
          NewThenDeleted(id, c) => Returned(deletions', id, c)]_vars

\* C2: while ghost mode is enabled every send_message call issues an
\* outbound send with the no-notification flag set, whatever the caller's
\* silent flag and whatever the hide-online, hide-typing and hide-read flags.
C2_GhostSendIsSilent ==
    (sent # NoSend /\ sent.ghost) => sent.disable_notification

\* C2 happens: a non-silent send under ghost mode with the three hide flags off
C2_Witness ==
    /\ sent # NoSend
    /\ sent.ghost /\ ~sent.silent /\ sent.disable_notification
    /\ ~hide_online /\ ~hide_typing /\ ~hide_read

\* C3: every send_message call made while ghost mode is disabled, also when
\* it was enabled at start-up and disabled since, passes the caller's silent
\* flag through as the no-notification flag.
C3_DisabledGhostPassesThrough ==
    [][(sent' # sent /\ ~ghost_mode_enabled) =>
          sent'.disable_notification = sent'.silent]_vars

\* C3 happens: ghost mode was enabled when the handlers were registered, is
\* disabled now, and a non-silent send went out with notification
C3_Witness ==
    /\ T_STATUS \in handlers
    /\ ~ghost_mode_enabled
    /\ sent # NoSend
    /\ ~sent.ghost /\ ~sent.silent /\ ~sent.disable_notification

\* the handled edit events of an identity, ordered by arrival
InArrivalOrder(es) ==
    [i \in 1..Len(es) |->
        CHOOSE e \in Range(es) : Cardinality({f \in Range(es) : f.seq <= e.seq}) = i]

\* C4: for every message and N >= 1, after N edit events for it have been
\* handled get_edit_history returns N+1 revisions with revision_seq
\* 0, 1, ..., N, and revision i holds the new_content of the i-th edit
\* event in arrival order.
C4_EditHistoryHasAllRevisions ==
    \A id \in Ids :
        edits[id] # <<>> =>
            LET h == EditHistory(revisions, id)
            IN  /\ h # NotFound
                /\ Len(h) = Len(edits[id]) + 1
                /\ \A i \in 1..Len(h) : h[i].seq = i - 1
                /\ \A i \in 1..Len(edits[id]) :
                      h[i + 1].content = InArrivalOrder(edits[id])[i].content

\* C5: updates of one identity are handled in arrival order: when the
\* handler run of an update completes, no update that names the same
\* identity and arrived earlier is still in flight (a delete is never
\* handled before the new message it deletes, an edit never before an
\* earlier edit).
C5_SameIdentityInArrivalOrder ==
    [][\A e \in inflight, f \in inflight' :
          (Completes(e) /\ \E id \in Ids : Names(e, id) /\ Names(f, id)) =>
              f.seq > e.seq]_vars

\* this step completes the handler run of a MessagesDeleted that names an
\* identity the system never observed: no NewMessage of it was handled and
\* neither the Capture Buffer nor the Store holds it
DeletedUnobserved(id) ==
    /\ \E e \in inflight : Handled(e, T_DELETE, id)
    /\ newContents[id] = {}
    /\ Snapshot(buffer, messages, id) = NotFound

\* no exception left the handler run of this step
EndedWithoutError == last'.outcome # "raised" /\ ~fatal'

\* C6: a MessagesDeleted naming a message the system never observed still
\* produces a Deletion Record of the identity with content marked
\* unavailable, and the handler does not end in an error.
C6_UnobservedDeletionIsRecorded ==
    [][\A id \in Ids :
          DeletedUnobserved(id) =>
              (Returned(deletions', id, Unavailable) /\ EndedWithoutError)]_vars

\* the message ids of batch e whose Store write failed
FailedWrites(e) == ReportedFailures(deletions, e.chat, e.ids, last'.failing)

\* the identities of batch e other than those whose write failed have a
\* Deletion Record afterwards, and the reported failures are the failed
\* writes
BatchTombstoned(e) ==
    /\ \A m \in Range(e.ids) \ FailedWrites(e) :
          HasDeletion(deletions', <<e.chat, m>>)
    /\ last'.reported = FailedWrites(e)

\* C7: in a MessagesDeleted batch each identity is processed independently:
\* when the Store write fails for identities of the batch, every other
\* identity of the batch has a Deletion Record afterwards, and the reported
\* failures are exactly the identities whose write failed.
C7_BatchIsProcessedPerIdentity ==
    [][\A e \in inflight :
          (Completes(e) /\ e.type = T_DELETE) => BatchTombstoned(e)]_vars

\* some handler in flight can resume
CanDeliver ==
    ENABLED (DispatchNew \/ DispatchDelete \/ DispatchEdit \/ DispatchStatus)

\* C8: a failure while handling one update never aborts the Dispatcher and
\* never prevents later updates from being handled: after a handler run
\* that failed the run goes on, and a handler in flight can resume.
C8_FailureDoesNotStopDispatch ==
    (last.outcome = "raised" /\ ~stopped) =>
        (~fatal /\ (inflight # {} => CanDeliver))

\* C9: shutdown is orderly: when stop has been requested with updates
\* delivered before it, no handler is still in flight, no Capture Buffer
\* entry is missing from the Store, and the Store handle is released.
C9_OrderlyShutdown ==
    (stopped /\ arrived > 0) =>
        /\ inflight = {}
        /\ \A i \in 1..Len(buffer) : messages[buffer[i].id] # NotFound
        /\ ~db_open

\* the first edit of an identity without any prior content, the transport
\* backfill failing, the Store available
FirstEditWithoutContent(e, id) ==
    /\ Handled(e, T_EDIT, id)
    /\ last'.outcome # "raised"
    /\ last'.fetch = FetchFail
    /\ revisions[id] = <<>>
    /\ Snapshot(buffer, messages, id) = NotFound

\* C10: on the first edit of a message without prior content (not in the
\* Capture Buffer or Store, backfill failed) revision 0 is recorded with
\* content unavailable and revision 1 with the new content is appended.
C10_FirstEditWithoutContentIsRecorded ==
    [][\A id \in Ids : \A e \in inflight :
          FirstEditWithoutContent(e, id) =>
              /\ EditHistory(revisions', id) # NotFound
              /\ EditHistory(revisions', id) =
                    <<Revision(0, Unavailable), Revision(1, e.content)>>]_vars

\* C10 happens: the edit just handled found no content and its backfill failed
C10_Witness ==
    /\ last.type = T_EDIT /\ last.outcome = "ok" /\ last.fetch = FetchFail
    /\ arrived = 1 /\ inflight = {}
    /\ \E id \in Ids :
          /\ Len(edits[id]) = 1
          /\ messages[id] = NotFound
          /\ revisions[id] = <<Revision(0, Unavailable),
                               Revision(1, edits[id][1].content)>>

\* the number of Capture Buffer entries of the identity
Entries(buf, id) == Cardinality({i \in 1..Len(buf) : buf[i].id = id})

\* a NewMessage with content c whose record the Store holds already, the
\* Capture Buffer holding it too or nothing for the identity
ObservedAgain(e, id, c) ==
    /\ Handled(e, T_NEW, id)
    /\ e.content = c
    /\ messages[id] = c
    /\ Lookup(buffer, id) \in {c, NotFound}

\* C11: observing an identical Message Record again is idempotent: no
\* message record is added or changed, the write is not rejected with
\* ImmutableRecord, and the Store and the Capture Buffer hold the same
\* content for the identity as after the first observe, in one entry.
C11_ObserveIsIdempotent ==
    [][\A id \in Ids, c \in Contents : \A e \in inflight :
          ObservedAgain(e, id, c) =>
              /\ messages' = messages
              /\ Lookup(buffer', id) = c
              /\ Entries(buffer', id) = 1
              /\ last'.outcome # "rejected"]_vars

\* C11 happens: the same record was just observed for the second time
C11_Witness ==
    /\ last.type = T_NEW /\ last.outcome = "unchanged"
    /\ arrived = 2 /\ inflight = {}
    /\ \E id \in Ids :
          /\ Cardinality(newContents[id]) = 1
          /\ edits[id] = <<>>
          /\ ~HasDeletion(deletions, id)
          /\ messages[id] \in newContents[id]
          /\ Entries(buffer, id) = 1

\* the number of Deletion Records of the identity
Tombs(dels, id) == Cardinality({i \in 1..Len(dels) : dels[i].id = id})

\* C12: after any sequence of events, several MessagesDeleted or one batch
\* naming the same identity included, at most one Deletion Record exists
\* per identity, and no event replaces or changes a Deletion Record that
\* exists: a later delete of a tombstoned identity leaves its record as it
\* is.
C12_OneDeletionRecordPerIdentity ==
    [][/\ \A id \in Ids : Tombs(deletions', id) <= 1
       /\ Len(deletions') >= Len(deletions)
       /\ SubSeq(deletions', 1, Len(deletions)) = deletions]_vars

\* C12 happens: the only update so far was a batch of two message ids whose
\* writes did not fail, and there is one Deletion Record: the batch named
\* one identity twice
C12_Witness ==
    /\ save_deleted
    /\ ~fatal
    /\ arrived = 1 /\ inflight = {}
    /\ last.type = T_DELETE /\ last.outcome = "ok" /\ last.failing = {}
    /\ last.named = 2
    /\ Len(deletions) = 1

\* C13: handling a MessagesDeleted leaves every Message Record of the Store
\* as it is, neither removed nor modified, and the revision records too.
C13_DeletionLeavesRecordsUntouched ==
    [][\A e \in inflight :
          (Completes(e) /\ e.type = T_DELETE) =>
              (messages' = messages /\ revisions' = revisions)]_vars

\* C13 happens: a new message, an edit and a delete were handled, the
\* delete last: it tombstoned an identity that has a Message Record and
\* revisions
C13_Witness ==
    /\ arrived = 3 /\ inflight = {}
    /\ last.type = T_DELETE /\ last.outcome = "ok"
    /\ \E id \in Ids :
          /\ newContents[id] # {}
          /\ messages[id] \in Contents
          /\ Len(revisions[id]) >= 2
          /\ HasDeletion(deletions, id)

\* C14: an identity only moves forward and a tombstoned record is immutable:
\* once an identity has a Deletion Record it keeps it, and no later event
\* (new message, edit or delete) changes the content of its Message Record.
C14_TombstonedIsImmutable ==
    [][\A id \in Ids :
          HasDeletion(deletions, id) =>
              /\ HasDeletion(deletions', id)
              /\ (messages[id] # NotFound => messages'[id] = messages[id])]_vars

\* a NewMessage, then edits, then a MessagesDeleted of the identity, each
\* handled before the next arrived: the Message Record holds the content of
\* the last edit, the identity has no Deletion Record yet, handle_deletion
\* returns and the deletion's Store write does not fail
EditedThenDeleted(id) ==
    /\ save_deleted
    /\ \E e \in inflight :
          /\ Handled(e, T_DELETE, id)
          /\ \A i \in 1..Len(edits[id]) : edits[id][i].seq < e.seq
    /\ last'.outcome # "raised"
    /\ id[2] \notin last'.failing
    /\ newContents[id] # {}
    /\ edits[id] # <<>>
    /\ messages[id] = edits[id][Len(edits[id])].content
    /\ ~HasDeletion(deletions, id)

\* C15: deletion captures the latest content: after a NewMessage, k >= 1
\* edits and then a MessagesDeleted of the same identity, the Deletion
\* Record's last_known_content is the new_content of the last edit, which
\* is the Message Record content at the time of deletion.
C15_DeletionHoldsLatestContent ==
    [][\A id \in Ids :
          EditedThenDeleted(id) => Returned(deletions', id, messages[id])]_vars

\* the identity's entry is in the Capture Buffer pending its write: the
\* buffer lives in the process, which has to run to write it
PendingWrite(buf, id) == Lookup(buf, id) # NotFound /\ Alive'

\* C16: the Capture Buffer is never the sole copy of a captured message:
\* in every reachable state each message that has been observed and is
\* absent from the Store is still in the buffer pending write, and an entry
\* that leaves the buffer is in the Store when it leaves, so that a read of
\* the buffer, then the Store, finds every observed message.
C16_BufferIsNeverTheSoleCopy ==
    [][/\ \A id \in Ids :
             (newContents'[id] # {} /\ messages'[id] = NotFound) =>
                 PendingWrite(buffer', id)
       /\ \A i \in 1..Len(buffer) :
             Lookup(buffer', buffer[i].id) = NotFound =>
                 messages'[buffer[i].id] # NotFound]_vars

\* C17: with save_deleted false the anti-delete handler is never called for
\* NewMessage and MessagesDeleted: there is no Message Record, no Capture
\* Buffer entry and no Deletion Record, and get_deleted_messages is empty
\* for every chat; MessageEdited is still passed to the history handler,
\* whose revision 0 is the transport backfill or unavailable, never a
\* captured original.
C17_SaveDeletedGatesCaptureNotEdits ==
    [][~save_deleted =>
          /\ \A id \in Ids : messages'[id] = NotFound
          /\ buffer' = <<>>
          /\ \A chat \in Chats : DeletedMessages(deletions', chat) = <<>>
          /\ \A e \in inflight :
                (Completes(e) /\ e.type \in {T_NEW, T_DELETE}) =>
                    last'.outcome = "skipped"
          /\ \A id \in Ids : \A e \in inflight :
                Handled(e, T_EDIT, id) =>
                    /\ last'.outcome # "skipped"
                    /\ (last'.outcome = "ok" /\ revisions[id] = <<>>) =>
                          revisions'[id][1].content =
                              (IF last'.fetch = FetchFail THEN Unavailable
                               ELSE last'.fetch)]_vars

\* C17 happens: with save_deleted false a new message and an edit of one
\* identity and then a delete have been handled
C17_Witness ==
    /\ ~save_deleted
    /\ arrived = 3 /\ inflight = {}
    /\ last.type = T_DELETE /\ last.outcome = "skipped"
    /\ \E id \in Ids :
          /\ newContents[id] # {}
          /\ edits[id] # <<>>
          /\ revisions[id][1].content = Unavailable

\* C18: the status handler is registered exactly when ghost mode is enabled
\* at init_client time: the registration changes only by an init_client
\* call, which registers according to the flag's value at that time, and
\* setting the flag neither adds nor removes it; send_message follows the
\* flag's current value on every call.
C18_StatusRoutingIsFixedAtRegistration ==
    [][/\ handlers' # handlers =>
             (T_STATUS \in handlers' <=> ghost_mode_enabled)
       /\ replaced \subseteq replaced'
       /\ \A h \in replaced' \ replaced : h = handlers \/ run_tg[h] > 0
       /\ ghost_mode_enabled' # ghost_mode_enabled =>
             (handlers' = handlers /\ replaced' = replaced)
       /\ sent' # sent =>
             sent'.disable_notification = (sent'.silent \/ ghost_mode_enabled)]_vars

\* C18 happens: ghost mode was off at init_client and is on now: a status
\* update was still dropped unrouted, while a non-silent send went out silent
C18_Witness ==
    /\ ghost_mode_enabled
    /\ tg # "None" /\ T_STATUS \notin handlers
    /\ last.type = T_STATUS /\ last.outcome = "unrouted"
    /\ sent # NoSend /\ sent.ghost /\ ~sent.silent /\ sent.disable_notification

====
